---- MODULE Spec2Model ----
(***************************************************************************)
(* create_package.py: a script that seeds a scratch directory, archives it *)
(* with tar, compresses the archive with Zstandard, hashes the compressed  *)
(* file, prints the result and removes its scratch artifacts.              *)
(*                                                                         *)
(* The model follows the script statement by statement.  A run is one      *)
(* execution of the script (one process); its position is pc[r].  The      *)
(* working directory is a small file system: fs maps a path to a node      *)
(* (directory, or file with an inode number) and data maps a live inode to *)
(* its content, so that an open handle keeps addressing the file it opened *)
(* after the path was unlinked or re-created.                              *)
(*                                                                         *)
(* Fault model: the version computation and every statement of the try    *)
(* block that calls into the operating system or a library may raise.  The *)
(* print calls of the except and finally blocks succeed, and the removals  *)
(* of the finally block fail only for what another run did to the paths.   *)
(***************************************************************************)
EXTENDS Integers, Sequences, FiniteSets, TLC

\* Number of distinct seconds the wall clock can show during the runs.
NumTimes == 2

\* The executions of the script that are modelled.
Runs == {1, 2}

(***************************************************************************)
(* Configuration (lines 9-15)                                              *)
(***************************************************************************)
PACKAGE_NAME == "nginx"

TEMP_DIR == <<"temp_" \o PACKAGE_NAME>>

DUMMY_FILE_NAME == "README.txt"

\* The two lines written at lines 25-26.
DummyLines == <<"This is a dummy file for the nginx package.\n",
                "This content should be used to generate a consistent checksum.\n">>

(***************************************************************************)
(* datetime.now().strftime("%Y%m%d%H%M%S") (line 11)                       *)
(***************************************************************************)
\* The instants the clock can show: consecutive seconds around a change of
\* the number of digits of the seconds field.
Times == [i \in 1..NumTimes |-> [Y |-> 2024, m |-> 1, d |-> 5, H |-> 7, M |-> 3, S |-> 8 + i]]

DigitChar == <<"0", "1", "2", "3", "4", "5", "6", "7", "8", "9">>

\* %m, %d, %H, %M, %S: two digits, zero padded.
Pad2(n) == DigitChar[((n \div 10) % 10) + 1] \o DigitChar[(n % 10) + 1]

\* %Y: four digits.
Pad4(n) == Pad2(n \div 100) \o Pad2(n % 100)

Strftime(t) == Pad4(t.Y) \o Pad2(t.m) \o Pad2(t.d) \o Pad2(t.H) \o Pad2(t.M) \o Pad2(t.S)

(***************************************************************************)
(* Paths and the file system                                               *)
(***************************************************************************)
\* os.path.join(dir, name)
PathJoin(dir, name) == Append(dir, name)

\* os.path.basename(path)
Basename(path) == path[Len(path)]

IsUnder(p, dir) == Len(p) > Len(dir) /\ SubSeq(p, 1, Len(dir)) = dir

DirNode == [type |-> "dir", ino |-> 0]

FileNode(i) == [type |-> "file", ino |-> i]

Put(f, k, v) == [x \in DOMAIN f \cup {k} |-> IF x = k THEN v ELSE f[x]]

Drop(f, S) == [x \in DOMAIN f \ S |-> f[x]]

Empty == [x \in {} |-> 0]

VARIABLES
    now,            \* index into Times of the last instant the clock showed
    fs,             \* working directory: path -> node
    data,           \* live inode -> content (a sequence)
    pc,             \* run -> the statement it executes next
    version,        \* run -> PACKAGE_VERSION ("" before line 11)
    tar_file_name,  \* run -> path, <<>> while the name is unbound
    zst_file_name,  \* run -> path, <<>> while the name is unbound
    handles,        \* run -> (file object name -> inode it has open)
    buf,            \* run -> bytes read at line 49
    checksum,       \* run -> hexdigest of line 52 (<<>> before)
    exc,            \* run -> message of the exception being propagated
    out,            \* run -> lines printed to standard output
    raised_at,      \* run -> the statements that raised an exception, in order
    launch          \* how the runs are started: "sequential" or "concurrent"

vars == <<now, fs, data, pc, version, tar_file_name, zst_file_name, handles,
          buf, checksum, exc, out, raised_at, launch>>

Unbound == <<>>

NoExc == "none"

Exists(f, p) == p \in DOMAIN f

IsFile(f, p) == p \in DOMAIN f /\ f[p].type = "file"

IsDir(f, p) == p \in DOMAIN f /\ f[p].type = "dir"

\* Content of the file at path p (<<>> when there is no such file).
FileData(f, d, p) == IF IsFile(f, p) THEN d[f[p].ino] ELSE <<>>

HandleInos(h) == UNION {{h[r][n] : n \in DOMAIN h[r]} : r \in Runs}

\* Inodes keep their content while a path or an open handle refers to them.
Collect(f, h, d) ==
    LET live == {f[p].ino : p \in {q \in DOMAIN f : f[q].type = "file"}} \cup HandleInos(h)
    IN  [i \in DOMAIN d \cap live |-> d[i]]

FreshIno(d) == CHOOSE i \in 1..(Cardinality(DOMAIN d) + 1) : i \notin DOMAIN d

\* Writing bytes w through a handle positioned at offset off of content old.
WriteAt(old, off, w) ==
    SubSeq(old, 1, off) \o w \o SubSeq(old, off + Len(w) + 1, Len(old))

\* The proper prefixes of s: what an interrupted write can leave behind.
ProperPrefixes(s) == {SubSeq(s, 1, n) : n \in 0..(Len(s) - 1)}

\* open(p, "w") / open(p, "wb"): the inode the handle gets, an existing file
\* being truncated in place and a missing one created.
OpenWIno(f, d, p) == IF IsFile(f, p) THEN f[p].ino ELSE FreshIno(d)

OpenWFs(f, d, p) == Put(f, p, FileNode(OpenWIno(f, d, p)))

OpenWData(f, d, p) == Put(d, OpenWIno(f, d, p), <<>>)

(***************************************************************************)
(* Library functions                                                       *)
(***************************************************************************)
\* Names a scratch directory can hold, in the order sorted(os.listdir())
\* yields them (tarfile.add recurses in sorted order).
NameOrder == <<DUMMY_FILE_NAME, "stale.txt">>

\* tar.add(dir, arcname=arcname): one member for the directory itself, then
\* one for each entry below it, named arcname/<entry>.
TarMembers(f, d, dir, arcname) ==
    LET names == SelectSeq(NameOrder, LAMBDA n : IsFile(f, PathJoin(dir, n)))
    IN  <<[name |-> <<arcname>>, type |-> "dir", content |-> <<>>]>> \o
        [i \in 1..Len(names) |->
            [name |-> <<arcname, names[i]>>, type |-> "file",
             content |-> FileData(f, d, PathJoin(dir, names[i]))]]

\* ZstdCompressor().copy_stream: a frame header, one block per unit of
\* input, and the end-of-frame mark written when the stream is finished.
ZstdCompress(bytes) ==
    <<[k |-> "magic", b |-> <<>>]>> \o
    [i \in 1..Len(bytes) |-> [k |-> "block", b |-> <<bytes[i]>>]] \o
    <<[k |-> "end", b |-> <<>>]>>

\* A frame is complete when it starts with the header, ends with the
\* end-of-frame mark and holds blocks only in between.
ZstdComplete(frame) ==
    /\ Len(frame) >= 2
    /\ frame[1].k = "magic"
    /\ frame[Len(frame)].k = "end"
    /\ \A i \in 2..(Len(frame) - 1) : frame[i].k = "block"

\* Decompression of a complete frame.
ZstdDecompress(frame) == [i \in 1..(Len(frame) - 2) |-> frame[i + 1].b[1]]

\* hashlib.sha256(bytes).hexdigest(): SHA-256 is taken to be collision free,
\* so a digest stands for exactly the bytes that were hashed.
Sha256(bytes) == <<"sha256", bytes>>

(***************************************************************************)
(* Initial state                                                           *)
(***************************************************************************)
ReadmePath == PathJoin(TEMP_DIR, DUMMY_FILE_NAME)

StalePath == PathJoin(TEMP_DIR, "stale.txt")

\* States of the working directory the script can be started in: empty; a
\* scratch directory left behind (empty, with an old README.txt, with a
\* foreign file); a regular file in the place of the scratch directory.
CleanDir == [fs |-> Empty, data |-> Empty]

InitialDirs ==
    { CleanDir,
      [fs |-> Put(Empty, TEMP_DIR, DirNode), data |-> Empty],
      [fs |-> Put(Put(Empty, TEMP_DIR, DirNode), ReadmePath, FileNode(1)),
       data |-> Put(Empty, 1, <<"old\n">>)],
      [fs |-> Put(Put(Empty, TEMP_DIR, DirNode), StalePath, FileNode(1)),
       data |-> Put(Empty, 1, <<"stale\n">>)],
      [fs |-> Put(Empty, TEMP_DIR, FileNode(1)), data |-> Put(Empty, 1, <<"x">>)] }

\* The process of run r has ended: normally, or with an uncaught exception.
Ended(r) == pc[r] \in {"done", "crashed"}

\* Run r may execute its next statement: runs started one after the other
\* begin when the runs before them have ended, runs started side by side
\* interleave their statements in any order.
Scheduled(r) == launch = "concurrent" \/ \A q \in Runs : q < r => Ended(q)

\* The runs before their first statement, in a working directory of dirs.
InitRuns(dirs) ==
    /\ now = 1
    /\ \E w \in dirs : fs = w.fs /\ data = w.data
    /\ pc = [r \in Runs |-> "L11"]
    /\ version = [r \in Runs |-> ""]
    /\ tar_file_name = [r \in Runs |-> Unbound]
    /\ zst_file_name = [r \in Runs |-> Unbound]
    /\ handles = [r \in Runs |-> Empty]
    /\ buf = [r \in Runs |-> <<>>]
    /\ checksum = [r \in Runs |-> <<>>]
    /\ exc = [r \in Runs |-> NoExc]
    /\ out = [r \in Runs |-> <<>>]
    /\ raised_at = [r \in Runs |-> <<>>]

(***************************************************************************)
(* Control flow helpers                                                    *)
(***************************************************************************)
\* Run r moves to statement l with file system f, contents d and open
\* handles h; e is the exception it propagates (NoExc if none).
Move(r, l, e, f, d, h) ==
    /\ Scheduled(r)
    /\ pc' = [pc EXCEPT ![r] = l]
    /\ launch' = launch
    /\ exc' = [exc EXCEPT ![r] = e]
    /\ fs' = f
    /\ handles' = [handles EXCEPT ![r] = h]
    /\ data' = Collect(f, [handles EXCEPT ![r] = h], d)

\* A statement that completes without raising.
Step(r, l, e, f, d, h) == Move(r, l, e, f, d, h) /\ UNCHANGED raised_at

\* A statement that raises: the exception starts to propagate from pc[r].
Throw(r, l, msg, f, d, h) ==
    /\ Move(r, l, msg, f, d, h)
    /\ raised_at' = [raised_at EXCEPT ![r] = Append(@, pc[r])]

\* Variant: the exception is not caught by any except clause.
RaiseUncaught(r, msg, f, d) == Throw(r, "crashed", msg, f, d, Empty)

\* An exception raised inside the try block: the with statements close the
\* files they opened and control passes to the except clause (line 60).
Raise(r, msg, f, d) == Throw(r, "L61", msg, f, d, Empty)

Goto(r, l) == Step(r, l, NoExc, fs, data, handles[r])

Emit(r, line) == out' = [out EXCEPT ![r] = Append(@, line)]

(***************************************************************************)
(* The script, statement by statement                                      *)
(***************************************************************************)
\* Line 11, before the try block: the version is read off the clock, which
\* never runs backwards.  An exception here is not inside any try statement
\* and ends the process.
ComputeVersion(r) ==
    /\ pc[r] = "L11"
    /\ \/ /\ \E t \in now..NumTimes :
                /\ now' = t
                /\ version' = [version EXCEPT ![r] = Strftime(Times[t])]
          /\ Goto(r, "L20")
       \/ /\ Throw(r, "crashed", "OSError: localtime", fs, data, Empty)
          /\ UNCHANGED <<now, version>>
    /\ UNCHANGED <<tar_file_name, zst_file_name, buf, checksum, out>>

\* The fixed texts of the lines the script prints (lines 20-65).
HeadCreatingDir == "Creating temporary directory: "

HeadCreatedFile == "Created dummy file: "

HeadCreatingTar == "Creating tar archive: "

HeadCompressing == "Compressing with Zstandard: "

HeadCalculating == "Calculating SHA256 checksum of "

HeadResults == "--- Results for your packages.json file ---"

HeadFileCreated == "File created: "

HeadChecksum == "Checksum: "

HeadYouCanNow == "You can now use this checksum to update your packages.json file."

HeadError == "An error occurred: "

HeadCleaning == "Cleaning up temporary directory: "

\* The progress lines of the try block (lines 20, 28, 35, 40, 46).
ProgressPcs == {"L20", "L28", "L35", "L40", "L46"}

ProgressLine(r) ==
    CASE pc[r] = "L20" -> <<HeadCreatingDir, TEMP_DIR>>
      [] pc[r] = "L28" -> <<HeadCreatedFile, ReadmePath>>
      [] pc[r] = "L35" -> <<HeadCreatingTar, tar_file_name[r]>>
      [] pc[r] = "L40" -> <<HeadCompressing, zst_file_name[r]>>
      [] pc[r] = "L46" -> <<HeadCalculating, zst_file_name[r]>>

AfterProgress(l) ==
    CASE l = "L20" -> "L21"
      [] l = "L28" -> "L31"
      [] l = "L35" -> "L36"
      [] l = "L40" -> "L42in"
      [] l = "L46" -> "L48"

ProgressPrint(r) ==
    /\ pc[r] \in ProgressPcs
    /\ \/ /\ Emit(r, ProgressLine(r))
          /\ Goto(r, AfterProgress(pc[r]))
       \/ /\ Raise(r, "OSError: write to stdout", fs, data)
          /\ UNCHANGED out
    /\ UNCHANGED <<now, version, tar_file_name, zst_file_name, buf, checksum>>

\* Line 21: os.makedirs(TEMP_DIR, exist_ok=True).
Makedirs(r) ==
    /\ pc[r] = "L21"
    /\ \/ IF IsFile(fs, TEMP_DIR)
          THEN Raise(r, "FileExistsError", fs, data)
          ELSE Step(r, "L24", NoExc, Put(fs, TEMP_DIR, DirNode), data, handles[r])
       \/ Raise(r, "PermissionError: makedirs", fs, data)
    /\ UNCHANGED <<now, version, tar_file_name, zst_file_name, buf, checksum, out>>

\* Lines 23-24: open(dummy_file_path, "w").
SeedOpen(r) ==
    /\ pc[r] = "L24"
    /\ \/ IF IsDir(fs, TEMP_DIR)
          THEN Step(r, "L25", NoExc, OpenWFs(fs, data, ReadmePath),
                    OpenWData(fs, data, ReadmePath),
                    Put(handles[r], "f", OpenWIno(fs, data, ReadmePath)))
          ELSE Raise(r, "FileNotFoundError: README.txt", fs, data)
       \/ Raise(r, "PermissionError: open README.txt", fs, data)
    /\ UNCHANGED <<now, version, tar_file_name, zst_file_name, buf, checksum, out>>

\* Lines 25-26 and the end of the with statement: both lines are written and
\* the file is closed; a failing write leaves a proper prefix behind.
SeedWrite(r) ==
    /\ pc[r] = "L25"
    /\ LET i == handles[r]["f"]
       IN  \/ Step(r, "L28", NoExc, fs,
                   [data EXCEPT ![i] = WriteAt(@, 0, DummyLines)], Empty)
           \/ \E w \in ProperPrefixes(DummyLines) :
                 Raise(r, "OSError: write README.txt", fs,
                       [data EXCEPT ![i] = WriteAt(@, 0, w)])
    /\ UNCHANGED <<now, version, tar_file_name, zst_file_name, buf, checksum, out>>

\* Line 31: f"{PACKAGE_NAME}-{PACKAGE_VERSION}.tar"
TarName(v) == <<PACKAGE_NAME \o "-" \o v \o ".tar">>

\* Line 32: f"{tar_file_name}.zst"
ZstName(v) == <<TarName(v)[1] \o ".zst">>

\* Lines 31-32: the two file names are bound.
BindNames(r) ==
    /\ pc[r] = "L31"
    /\ tar_file_name' = [tar_file_name EXCEPT ![r] = TarName(version[r])]
    /\ zst_file_name' = [zst_file_name EXCEPT ![r] = ZstName(version[r])]
    /\ Goto(r, "L35")
    /\ UNCHANGED <<now, version, buf, checksum, out>>

\* Line 36: tarfile.open(tar_file_name, "w").
TarOpen(r) ==
    /\ pc[r] = "L36"
    /\ \/ Step(r, "L37", NoExc, OpenWFs(fs, data, tar_file_name[r]),
               OpenWData(fs, data, tar_file_name[r]),
               Put(handles[r], "tar", OpenWIno(fs, data, tar_file_name[r])))
       \/ Raise(r, "PermissionError: open tar", fs, data)
    /\ UNCHANGED <<now, version, tar_file_name, zst_file_name, buf, checksum, out>>

\* Variant: the archive is written but not closed (no with statement).
TarAddLeftOpen(r) ==
    /\ pc[r] = "L37"
    /\ LET i == handles[r]["tar"]
           members == TarMembers(fs, data, TEMP_DIR, Basename(TEMP_DIR))
       IN  \/ IF Exists(fs, TEMP_DIR)
              THEN Step(r, "L40", NoExc, fs,
                        [data EXCEPT ![i] = WriteAt(@, 0, members)], handles[r])
              ELSE Raise(r, "FileNotFoundError: temp dir", fs, data)
           \/ /\ Exists(fs, TEMP_DIR)
              /\ \E w \in ProperPrefixes(members) :
                    Raise(r, "OSError: write tar", fs,
                          [data EXCEPT ![i] = WriteAt(@, 0, w)])
    /\ UNCHANGED <<now, version, tar_file_name, zst_file_name, buf, checksum, out>>

\* Line 37 and the end of the with statement: the scratch directory is added
\* under its base name and the archive is closed.  A missing directory
\* raises before anything is written; a failing write leaves a prefix.
TarAdd(r) ==
    /\ pc[r] = "L37"
    /\ LET i == handles[r]["tar"]
           members == TarMembers(fs, data, TEMP_DIR, Basename(TEMP_DIR))
       IN  \/ IF Exists(fs, TEMP_DIR)
              THEN Step(r, "L40", NoExc, fs,
                        [data EXCEPT ![i] = WriteAt(@, 0, members)], Empty)
              ELSE Raise(r, "FileNotFoundError: temp dir", fs, data)
           \/ /\ Exists(fs, TEMP_DIR)
              /\ \E w \in ProperPrefixes(members) :
                    Raise(r, "OSError: write tar", fs,
                          [data EXCEPT ![i] = WriteAt(@, 0, w)])
    /\ UNCHANGED <<now, version, tar_file_name, zst_file_name, buf, checksum, out>>

\* Lines 41-42, first context manager: open(tar_file_name, "rb").
CompressOpenIn(r) ==
    /\ pc[r] = "L42in"
    /\ \/ IF IsFile(fs, tar_file_name[r])
          THEN Step(r, "L42out", NoExc, fs, data,
                    Put(handles[r], "f_in", fs[tar_file_name[r]].ino))
          ELSE Raise(r, "FileNotFoundError: tar", fs, data)
       \/ Raise(r, "OSError: open tar", fs, data)
    /\ UNCHANGED <<now, version, tar_file_name, zst_file_name, buf, checksum, out>>

\* Line 42, second context manager: open(zst_file_name, "wb") creates the
\* output file or truncates the one that is there.
CompressOpenOut(r) ==
    /\ pc[r] = "L42out"
    /\ \/ Step(r, "L43", NoExc, OpenWFs(fs, data, zst_file_name[r]),
               OpenWData(fs, data, zst_file_name[r]),
               Put(handles[r], "f_out", OpenWIno(fs, data, zst_file_name[r])))
       \/ Raise(r, "PermissionError: open zst", fs, data)
    /\ UNCHANGED <<now, version, tar_file_name, zst_file_name, buf, checksum, out>>

\* Line 43 and the end of the with statement: the whole input is compressed
\* into the output and both files are closed; a failing copy leaves a proper
\* prefix of the frame in the output file.
CopyStream(r) ==
    /\ pc[r] = "L43"
    /\ LET o == handles[r]["f_out"]
           frame == ZstdCompress(data[handles[r]["f_in"]])
       IN  \/ Step(r, "L46", NoExc, fs,
                   [data EXCEPT ![o] = WriteAt(@, 0, frame)], Empty)
           \/ \E w \in ProperPrefixes(frame) :
                 Raise(r, "OSError: copy_stream", fs,
                       [data EXCEPT ![o] = WriteAt(@, 0, w)])
    /\ UNCHANGED <<now, version, tar_file_name, zst_file_name, buf, checksum, out>>

\* Lines 47-48: open(zst_file_name, "rb").
HashOpen(r) ==
    /\ pc[r] = "L48"
    /\ \/ IF IsFile(fs, zst_file_name[r])
          THEN Step(r, "L49", NoExc, fs, data,
                    Put(handles[r], "f", fs[zst_file_name[r]].ino))
          ELSE Raise(r, "FileNotFoundError: zst", fs, data)
       \/ Raise(r, "OSError: open zst", fs, data)
    /\ UNCHANGED <<now, version, tar_file_name, zst_file_name, buf, checksum, out>>

\* Variant: only the first chunk of the file is read and hashed.
HashReadFirstChunk(r) ==
    /\ pc[r] = "L49"
    /\ \/ /\ buf' = [buf EXCEPT ![r] = SubSeq(data[handles[r]["f"]], 1, 1)]
          /\ Step(r, "L52", NoExc, fs, data, Empty)
       \/ /\ Raise(r, "MemoryError: read", fs, data)
          /\ UNCHANGED buf
    /\ UNCHANGED <<now, version, tar_file_name, zst_file_name, checksum, out>>

\* Lines 49-50 and the end of the with statement: the whole file is read
\* into buf, fed to the hasher, and the file is closed.
HashRead(r) ==
    /\ pc[r] = "L49"
    /\ \/ /\ buf' = [buf EXCEPT ![r] = data[handles[r]["f"]]]
          /\ Step(r, "L52", NoExc, fs, data, Empty)
       \/ /\ Raise(r, "MemoryError: read", fs, data)
          /\ UNCHANGED buf
    /\ UNCHANGED <<now, version, tar_file_name, zst_file_name, checksum, out>>

\* Line 52: checksum = hasher.hexdigest().
Hexdigest(r) ==
    /\ pc[r] = "L52"
    /\ checksum' = [checksum EXCEPT ![r] = Sha256(buf[r])]
    /\ Goto(r, "L55")
    /\ UNCHANGED <<now, version, tar_file_name, zst_file_name, buf, out>>

\* Lines 55-58: the results block, one print call per line.
ResultPcs == {"L55", "L56", "L57", "L58"}

ResultLine(r) ==
    CASE pc[r] = "L55" -> <<HeadResults, <<>>>>
      [] pc[r] = "L56" -> <<HeadFileCreated, zst_file_name[r]>>
      [] pc[r] = "L57" -> <<HeadChecksum, checksum[r]>>
      [] pc[r] = "L58" -> <<HeadYouCanNow, <<>>>>

AfterResult(l) ==
    CASE l = "L55" -> "L56"
      [] l = "L56" -> "L57"
      [] l = "L57" -> "L58"
      [] l = "L58" -> "L65"

ResultPrint(r) ==
    /\ pc[r] \in ResultPcs
    /\ \/ /\ Emit(r, ResultLine(r))
          /\ Goto(r, AfterResult(pc[r]))
       \/ /\ Raise(r, "OSError: write to stdout", fs, data)
          /\ UNCHANGED out
    /\ UNCHANGED <<now, version, tar_file_name, zst_file_name, buf, checksum>>

\* Variant: the handler also deletes the output file of the failed run.
ExceptRemovesOutput(r) ==
    /\ pc[r] = "L61"
    /\ Emit(r, <<HeadError, <<exc[r]>>>>)
    /\ Step(r, "L65", NoExc, Drop(fs, {zst_file_name[r]}), data, handles[r])
    /\ UNCHANGED <<now, version, tar_file_name, zst_file_name, buf, checksum>>

\* Lines 60-61: except Exception as e: the message is printed and the
\* exception is handled.
Except(r) ==
    /\ pc[r] = "L61"
    /\ Emit(r, <<HeadError, <<exc[r]>>>>)
    /\ Goto(r, "L65")
    /\ UNCHANGED <<now, version, tar_file_name, zst_file_name, buf, checksum>>

\* Line 65: first statement of the finally block.
FinallyPrint(r) ==
    /\ pc[r] = "L65"
    /\ Emit(r, <<HeadCleaning, TEMP_DIR>>)
    /\ Goto(r, "L66")
    /\ UNCHANGED <<now, version, tar_file_name, zst_file_name, buf, checksum>>

\* Variant: the entries of the directory are not removed (rmdir for rm -rf).
RmChildrenSkipped(f, dir) == f

\* rm -rf dir works its way up: it first unlinks the entries it finds below
\* dir ...
RmChildren(f, dir) == Drop(f, {p \in DOMAIN f : IsUnder(p, dir)})

\* ... and then removes dir itself (a regular file at dir is just unlinked),
\* which fails if another process has put a new entry into it meanwhile;
\* -f and the ignored result of os.system keep the failure silent.
RmDir(f, dir) ==
    IF \E p \in DOMAIN f : IsUnder(p, dir) THEN f ELSE Drop(f, {dir})

\* Variant: the scratch directory is left alone while it is in place.
CleanupTempDirSkipped(r) ==
    /\ pc[r] = "L66"
    /\ Goto(r, "L68")
    /\ UNCHANGED <<now, version, tar_file_name, zst_file_name, buf, checksum, out>>

\* Lines 66-67: if os.path.exists(TEMP_DIR): os.system("rm -rf ..."), up to
\* the point where rm has emptied the directory.
CleanupTempDir(r) ==
    /\ pc[r] = "L66"
    /\ IF Exists(fs, TEMP_DIR)
       THEN Step(r, "L67", NoExc, RmChildren(fs, TEMP_DIR), data, handles[r])
       ELSE Goto(r, "L68")
    /\ UNCHANGED <<now, version, tar_file_name, zst_file_name, buf, checksum, out>>

\* Line 67, the rest of rm -rf: the emptied directory is removed and
\* os.system returns.
CleanupTempDirFinish(r) ==
    /\ pc[r] = "L67"
    /\ Step(r, "L68", NoExc, RmDir(fs, TEMP_DIR), data, handles[r])
    /\ UNCHANGED <<now, version, tar_file_name, zst_file_name, buf, checksum, out>>

\* Line 68: if os.path.exists(tar_file_name).  The name is bound at line 31
\* only: when the try block was left before that, evaluating it raises
\* NameError inside the finally block, which nothing catches.
CleanupTarCheck(r) ==
    /\ pc[r] = "L68"
    /\ IF tar_file_name[r] = Unbound
       THEN Throw(r, "crashed", "NameError: tar_file_name", fs, data, handles[r])
       ELSE IF Exists(fs, tar_file_name[r]) THEN Goto(r, "L69") ELSE Goto(r, "done")
    /\ UNCHANGED <<now, version, tar_file_name, zst_file_name, buf, checksum, out>>

\* Variant: the compressed file is removed together with the tar file.
CleanupTarRemoveBoth(r) ==
    /\ pc[r] = "L69"
    /\ IF Exists(fs, tar_file_name[r])
       THEN Step(r, "done", NoExc, Drop(fs, {tar_file_name[r], zst_file_name[r]}),
                 data, handles[r])
       ELSE Throw(r, "crashed", "FileNotFoundError: remove tar", fs, data, handles[r])
    /\ UNCHANGED <<now, version, tar_file_name, zst_file_name, buf, checksum, out>>

\* Line 69: os.remove(tar_file_name); a file that has gone meanwhile makes it
\* raise FileNotFoundError, uncaught.
CleanupTarRemove(r) ==
    /\ pc[r] = "L69"
    /\ IF Exists(fs, tar_file_name[r])
       THEN Step(r, "done", NoExc, Drop(fs, {tar_file_name[r]}), data, handles[r])
       ELSE Throw(r, "crashed", "FileNotFoundError: remove tar", fs, data, handles[r])
    /\ UNCHANGED <<now, version, tar_file_name, zst_file_name, buf, checksum, out>>

(***************************************************************************)
(* Specifications                                                          *)
(***************************************************************************)
Statement(r) ==
    \/ ComputeVersion(r)
    \/ ProgressPrint(r)
    \/ Makedirs(r)
    \/ SeedOpen(r)
    \/ SeedWrite(r)
    \/ BindNames(r)
    \/ TarOpen(r)
    \/ TarAdd(r)
    \/ CompressOpenIn(r)
    \/ CompressOpenOut(r)
    \/ CopyStream(r)
    \/ HashOpen(r)
    \/ HashRead(r)
    \/ Hexdigest(r)
    \/ ResultPrint(r)
    \/ Except(r)
    \/ FinallyPrint(r)
    \/ CleanupTempDir(r)
    \/ CleanupTempDirFinish(r)
    \/ CleanupTarCheck(r)
    \/ CleanupTarRemove(r)

Next == \E r \in Runs : Statement(r)

\* Runs executed one after the other.
Init == InitRuns(InitialDirs) /\ launch = "sequential"

Spec == Init /\ [][Next]_vars

\* Runs started side by side in the same, clean working directory.
InitConcurrent == InitRuns({CleanDir}) /\ launch = "concurrent"

SpecConcurrent == InitConcurrent /\ [][Next]_vars

(***************************************************************************)
(* Vocabulary of the properties                                            *)
(***************************************************************************)
\* The statements of the script in the order of the text (line numbers).
PcOrder ==
    <<"L11", "L20", "L21", "L24", "L25", "L28", "L31", "L35", "L36", "L37", "L40",
      "L42in", "L42out", "L43", "L46", "L48", "L49", "L52", "L55", "L56", "L57",
      "L58", "L61", "L65", "L66", "L67", "L68", "L69", "done", "crashed">>

Rank(l) == CHOOSE i \in 1..Len(PcOrder) : PcOrder[i] = l

\* The statements of the try block (lines 18-58), and those of the finally
\* block that touch the file system (lines 66-69).
TryPcs == {PcOrder[i] : i \in Rank("L20")..Rank("L58")}

CleanupPcs == {"L66", "L67", "L68", "L69"}

\* The lines printed inside the try block, and the statement printing each.
HeadOrder ==
    <<HeadCreatingDir, HeadCreatedFile, HeadCreatingTar, HeadCompressing,
      HeadCalculating, HeadResults, HeadFileCreated, HeadChecksum, HeadYouCanNow>>

HeadPc == <<"L20", "L28", "L35", "L40", "L46", "L55", "L56", "L57", "L58">>

TryHeads == {HeadOrder[i] : i \in 1..Len(HeadOrder)}

LineRank(head) ==
    IF head \in TryHeads
    THEN Rank(HeadPc[CHOOSE i \in 1..Len(HeadOrder) : HeadOrder[i] = head])
    ELSE IF head = HeadError THEN Rank("L61") ELSE Rank("L65")

\* Run r printed a line that starts with the text head.
Printed(r, head) == \E i \in 1..Len(out[r]) : out[r][i][1] = head

\* The statement of run r that raised first ("" when none has).
RaisedAt(r) == IF raised_at[r] = <<>> THEN "" ELSE raised_at[r][1]

\* The try block of run r has been entered (line 11 did not raise).
EnteredTry(r) == version[r] # ""

\* No run started after r has executed anything yet: the working directory
\* is as run r left (or is leaving) it.
Latest(r) == \A q \in Runs : q > r => pc[q] = "L11"

\* No earlier run used the file names of run r.
FirstOfVersion(r) == \A q \in Runs : q < r => version[q] # version[r]

\* Run r has ended after a try block that ran to its last statement.
Succeeded(r) == Ended(r) /\ Printed(r, HeadYouCanNow)

\* The checksum run r printed.
PrintedChecksum(r) ==
    out[r][CHOOSE i \in 1..Len(out[r]) : out[r][i][1] = HeadChecksum][2]

\* The archive a run is meant to produce: the scratch directory under its
\* base name, holding README.txt with the two fixed lines.
ExpectedArchive ==
    << [name |-> <<Basename(TEMP_DIR)>>, type |-> "dir", content |-> <<>>],
       [name |-> <<Basename(TEMP_DIR), DUMMY_FILE_NAME>>, type |-> "file",
        content |-> DummyLines] >>

C1_WitnessSuccess == \E r \in Runs : Succeeded(r) /\ Latest(r)

(***************************************************************************)
(* C2: a run that fails before it created any path (makedirs or the open   *)
(* of the seed file raises) prints the error, runs the whole cleanup block *)
(* without a secondary unhandled error and terminates normally.            *)
(***************************************************************************)
C2_EarlyFailureTerminatesNormally ==
    \A r \in Runs :
        (Ended(r) /\ RaisedAt(r) \in {"L21", "L24"}) =>
            /\ pc[r] = "done"
            /\ exc[r] = NoExc
            /\ Printed(r, HeadError)

(***************************************************************************)
(* C3: the printed checksum is the digest of exactly the bytes of the      *)
(* retained .tar.zst file: the file is opened for hashing only after the   *)
(* compressor wrote a complete frame and closed its output, the whole      *)
(* content is hashed, and nothing after the hashing (printing, cleanup)    *)
(* changes the file.                                                       *)
(***************************************************************************)
C3_ChecksumMatchesFile ==
    \A r \in Runs :
        /\ (pc[r] = "L49" /\ Latest(r)) =>
              /\ DOMAIN handles[r] = {"f"}
              /\ ZstdComplete(data[handles[r]["f"]])
        /\ (Printed(r, HeadChecksum) /\ Latest(r)) =>
              /\ IsFile(fs, zst_file_name[r])
              /\ PrintedChecksum(r) = Sha256(FileData(fs, data, zst_file_name[r]))
              /\ ZstdComplete(FileData(fs, data, zst_file_name[r]))

C3_Witness ==
    \E r \in Runs :
        /\ Succeeded(r) /\ Latest(r)
        /\ PrintedChecksum(r) = Sha256(FileData(fs, data, zst_file_name[r]))

(***************************************************************************)
(* C4: after a successful run the file nginx-<14 digits>.tar.zst exists in *)
(* the working directory; the cleanup block removes the scratch directory  *)
(* and the .tar file only and leaves the compressed file as it was hashed. *)
(***************************************************************************)
C4_CompressedFileRetained ==
    \A r \in Runs :
        (Latest(r) /\ Printed(r, HeadYouCanNow)) =>
            /\ zst_file_name[r] = <<PACKAGE_NAME \o "-" \o version[r] \o ".tar.zst">>
            /\ Len(version[r]) = 14
            /\ \E t \in 1..NumTimes : version[r] = Strftime(Times[t])
            /\ IsFile(fs, zst_file_name[r])
            /\ FileData(fs, data, zst_file_name[r]) = buf[r]

C4_Witness ==
    \E r \in Runs :
        /\ Succeeded(r) /\ Latest(r)
        /\ IsFile(fs, zst_file_name[r])
        /\ ~Exists(fs, tar_file_name[r])
        /\ ~Exists(fs, TEMP_DIR)

C6_ArchiveHoldsOnlyReadme ==
    \A r \in Runs :
        (Succeeded(r) /\ Latest(r)) =>
            /\ ZstdComplete(FileData(fs, data, zst_file_name[r]))
            /\ ZstdDecompress(FileData(fs, data, zst_file_name[r])) = ExpectedArchive

(***************************************************************************)
(* C7: when a run gets the version string of an earlier, successful run,   *)
(* then after it has ended, however it ended, the retained .tar.zst file   *)
(* of that version holds a complete compressed archive (the first run's or *)
(* the second run's).                                                      *)
(***************************************************************************)
C7_CollidingRunKeepsOutputComplete ==
    \A q, r \in Runs :
        (q < r /\ Succeeded(q) /\ version[r] = version[q] /\ Ended(r)) =>
            /\ IsFile(fs, zst_file_name[q])
            /\ ZstdComplete(FileData(fs, data, zst_file_name[q]))

(***************************************************************************)
(* C8: two runs started side by side in the same working directory are not *)
(* safe.  The cleanup of one run removes the shared scratch directory      *)
(* whatever the other run is doing, also after the other run has seeded it *)
(* and before it has archived it; the other run's tar.add then raises (the *)
(* directory is gone) or archives a directory without README.txt (the      *)
(* directory was created again meanwhile).                                 *)
(***************************************************************************)
C8_CleanupRacesWithArchiving ==
    [][\A r \in Runs :
          /\ (pc[r] = "L66" /\ pc'[r] # "L66") =>
                \A p \in DOMAIN fs' : ~IsUnder(p, TEMP_DIR)
          /\ (pc[r] = "L67" /\ pc'[r] # "L67") =>
                IF \E p \in DOMAIN fs : IsUnder(p, TEMP_DIR)
                THEN fs' = fs
                ELSE ~Exists(fs', TEMP_DIR)
          /\ (pc[r] = "L37" /\ pc'[r] # "L37" /\ ~Exists(fs, TEMP_DIR)) =>
                /\ pc'[r] = "L61"
                /\ exc'[r] = "FileNotFoundError: temp dir"
          /\ (pc[r] = "L37" /\ pc'[r] = "L40" /\ ~IsFile(fs, ReadmePath)
                /\ (\A q \in Runs \ {r} : version[q] # version[r])
                /\ handles[r]["tar"] \in DOMAIN data') =>
                \A i \in 1..Len(data'[handles[r]["tar"]]) :
                    data'[handles[r]["tar"]][i].name # <<Basename(TEMP_DIR), DUMMY_FILE_NAME>>
      ]_vars

\* Run r has seeded the scratch directory and not archived it yet, the
\* directory is gone, and the other run is past its rm -rf.
C8_Witness ==
    \E r, q \in Runs :
        /\ r # q
        /\ pc[r] = "L37"
        /\ ~Exists(fs, TEMP_DIR)
        /\ pc[q] \in {"L68", "L69", "done", "crashed"}
        /\ Printed(q, HeadCleaning)

\* The same race seen from its end: run r failed in tar.add because the
\* directory it had seeded was removed by the other run.
C8_WitnessFailedRun ==
    \E r, q \in Runs :
        /\ r # q
        /\ RaisedAt(r) = "L37"
        /\ Printed(r, HeadCreatedFile)
        /\ out[r][Len(out[r])][1] = HeadError
        /\ out[r][Len(out[r])][2] = <<"FileNotFoundError: temp dir">>
        /\ Printed(q, HeadCleaning)

\* The other outcome of the race: run r found the directory emptied and not
\* yet removed, and archived it without README.txt.
C8_WitnessArchivedWithoutReadme ==
    \E r, q \in Runs :
        /\ r # q
        /\ pc[r] = "L40"
        /\ pc[q] = "L67"
        /\ version[q] # version[r]
        /\ FileData(fs, data, tar_file_name[r])
              = <<[name |-> <<Basename(TEMP_DIR)>>, type |-> "dir", content |-> <<>>]>>

(***************************************************************************)
(* C9: within one run the operations execute strictly in the order scratch *)
(* directory creation, seed-file write, tar construction, compression,     *)
(* full-file read for hashing, result printing, cleanup, with no overlap:  *)
(* an operation starts after the previous one has completed and closed its *)
(* files (the tar file is complete and closed before compression reads     *)
(* it), and cleanup is the last operation of the run.                      *)
(***************************************************************************)
\* The file objects a run holds open at each statement.
OpenAt(l) ==
    CASE l = "L25" -> {"f"}
      [] l = "L37" -> {"tar"}
      [] l = "L42out" -> {"f_in"}
      [] l = "L43" -> {"f_in", "f_out"}
      [] l = "L49" -> {"f"}
      [] OTHER -> {}

C9_SequentialNoOverlap ==
    \A r \in Runs :
        \* every file is closed when the operation that opened it is over
        /\ DOMAIN handles[r] = OpenAt(pc[r])
        \* the output shows the operations in the order of the script
        /\ \A i, j \in 1..Len(out[r]) :
              i < j => LineRank(out[r][i][1]) < LineRank(out[r][j][1])
        /\ \A i \in 1..Len(out[r]) : LineRank(out[r][i][1]) < Rank(pc[r])
        \* cleanup is the last operation
        /\ (Ended(r) /\ EnteredTry(r)) => out[r][Len(out[r])][1] = HeadCleaning
        \* no operation has acted before the ones in front of it are over
        /\ (Latest(r) /\ FirstOfVersion(r) /\ Rank(pc[r]) <= Rank("L36")) =>
              ~Exists(fs, TarName(version[r]))
        /\ (Latest(r) /\ pc[r] \in {"L40", "L42in", "L42out", "L43"}) =>
              /\ IsFile(fs, ReadmePath)
              /\ FileData(fs, data, ReadmePath) = DummyLines
              /\ FileData(fs, data, tar_file_name[r])
                    = TarMembers(fs, data, TEMP_DIR, Basename(TEMP_DIR))
        /\ (Latest(r) /\ FirstOfVersion(r) /\ Rank(pc[r]) <= Rank("L42out")) =>
              ~Exists(fs, ZstName(version[r]))
        /\ Rank(pc[r]) <= Rank("L49") => buf[r] = <<>>
        /\ Rank(pc[r]) <= Rank("L52") => checksum[r] = <<>>
        /\ (Latest(r) /\ pc[r] \in {"L46", "L48", "L49", "L52"} \cup ResultPcs) =>
              /\ ZstdComplete(FileData(fs, data, zst_file_name[r]))
              /\ ZstdDecompress(FileData(fs, data, zst_file_name[r]))
                    = FileData(fs, data, tar_file_name[r])
        /\ (Latest(r) /\ Rank(pc[r]) < Rank("L66") /\ Rank(pc[r]) >= Rank("L40")
                /\ RaisedAt(r) = "") =>
              /\ IsFile(fs, tar_file_name[r])
              /\ IsDir(fs, TEMP_DIR)

\* A run that went through every operation and ended.
C9_Witness ==
    \E r \in Runs :
        /\ Succeeded(r)
        /\ Len(out[r]) = Len(HeadOrder) + 1
        /\ out[r][Len(out[r])][1] = HeadCleaning

(***************************************************************************)
(* C10: if a run fails after the compressed output file has been opened    *)
(* for writing (during compression, hashing or printing), the .tar.zst     *)
(* file is still in the working directory after cleanup and no checksum    *)
(* line was printed for it.                                                *)
(***************************************************************************)
\* The statements that follow the opening of the output file at line 42.
AfterOutputOpenPcs == {PcOrder[i] : i \in Rank("L43")..Rank("L58")}

C10_FailedRunPrintsNoChecksum ==
    \A r \in Runs :
        (Ended(r) /\ Latest(r) /\ RaisedAt(r) \in AfterOutputOpenPcs) =>
            /\ IsFile(fs, zst_file_name[r])
            /\ ~Printed(r, HeadChecksum)

(***************************************************************************)
(* C10, amended: if a run fails after the compressed output file has been  *)
(* opened for writing, the .tar.zst file, possibly empty or partial, stays *)
(* in the working directory through cleanup, and no checksum line was      *)
(* printed for it unless the failing statement is the last print call of   *)
(* the results block (line 58), which follows the checksum line.           *)
(***************************************************************************)
C10_FailedRunKeepsOutputFile ==
    \A r \in Runs :
        (Latest(r) /\ RaisedAt(r) \in AfterOutputOpenPcs) =>
            /\ IsFile(fs, zst_file_name[r])
            /\ Printed(r, HeadChecksum) <=> RaisedAt(r) = "L58"
            /\ ~Printed(r, HeadYouCanNow)
            /\ RaisedAt(r) = "L43" => ~ZstdComplete(FileData(fs, data, zst_file_name[r]))

\* A run whose compression failed has ended and left a partial file.
C10_Witness ==
    \E r \in Runs :
        /\ Ended(r) /\ Latest(r)
        /\ RaisedAt(r) = "L43"
        /\ IsFile(fs, zst_file_name[r])
        /\ Len(FileData(fs, data, zst_file_name[r])) > 0
        /\ ~ZstdComplete(FileData(fs, data, zst_file_name[r]))

====
